---------------------------- MODULE Spec2Model ----------------------------
(***************************************************************************)
(* Model of the component-archive commands of component-cli:               *)
(*   - "resources add" (pkg/commands/componentarchive/resources/add.go)    *)
(*   - "init"          (pkg/commands/componentarchive/init.go)             *)
(* One invocation of a command is one process run: it loads the archive,   *)
(* decodes the template streams, then merges, validates and writes the     *)
(* descriptor once per template.  Invocations follow each other on the     *)
(* same archive directory.                                                 *)
(***************************************************************************)
EXTENDS Naturals, Sequences, FiniteSets, TLC

(* ------------------------------ bounds --------------------------------- *)
\* maximal number of template documents of one invocation (file + stdin)
MaxDocs == 2
\* maximal number of command invocations on the archive
MaxRuns == 2

(* --------------------------- abstract values --------------------------- *)
\* the empty string / nil pointer / nil map of a Go field
None == ""

\* o.ResourceObjectPath: empty, a file that fs.Open cannot open, a file
PathKinds == {"nopath", "unreadable", "file"}

\* a document that is not decodable yaml/json
Malformed ==
    [malformed |-> TRUE, name |-> None, version |-> None, type |-> None,
     extraIdentity |-> None, labels |-> None, relation |-> None,
     access |-> None, input |-> None]

\* ResourceOptions: cdv2.Resource plus the input
Tmpl(n, v, t, e, l, r, a, i) ==
    [malformed |-> FALSE, name |-> n, version |-> v, type |-> t,
     extraIdentity |-> e, labels |-> l, relation |-> r, access |-> a,
     input |-> i]

\* cdv2.Resource
Res(n, v, t, e, l, r, a) ==
    [name |-> n, version |-> v, type |-> t, extraIdentity |-> e,
     labels |-> l, relation |-> r, access |-> a]

\* the embedded cdv2.Resource of a ResourceOptions
ResourceOf(t) ==
    Res(t.name, t.version, t.type, t.extraIdentity, t.labels, t.relation,
        t.access)

\* the access that ctf.ComponentArchive.AddResource stores for a blob
LocalFsBlob(digest) == "localFilesystemBlob:" \o digest

\* the template documents the streams are made of
Templates ==
    { \* an external resource with access
      Tmpl("a", "v2", "t1", None, None, "external", "acc2", None),
      \* only name and access
      Tmpl("a", None, None, None, None, None, "acc2", None),
      \* a local resource with access and without version
      Tmpl("c", None, "t1", None, None, "local", "acc1", None),
      \* a local resource with input and without version
      Tmpl("a", None, "t1", None, None, "local", None, "file_ok"),
      \* an input that cannot be read
      Tmpl("c", None, "t1", None, None, "local", None, "file_missing"),
      \* access and input
      Tmpl("c", "v1", "t1", None, None, "external", "acc1", "file_ok"),
      \* neither access nor input
      Tmpl("c", "v1", "t1", None, None, "external", None, None),
      \* an input without type
      Tmpl("c", None, None, None, None, "local", None, "file_ok"),
      Malformed }

\* cdv2.ComponentDescriptor
Descriptor(n, v, ctxs, rs) ==
    [schemaVersion |-> "v2", name |-> n, version |-> v,
     provider |-> "internal", repositoryContexts |-> ctxs,
     sources |-> <<>>, resources |-> rs, componentReferences |-> <<>>]

\* the zero value of cdv2.ComponentDescriptor
NullCD ==
    [schemaVersion |-> None, name |-> None, version |-> None,
     provider |-> None, repositoryContexts |-> <<>>,
     sources |-> <<>>, resources |-> <<>>, componentReferences |-> <<>>]

\* the descriptor file does not exist
NoFile == [state |-> "nofile", cd |-> NullCD]
\* the descriptor file was truncated and not completely rewritten
Torn == [state |-> "torn", cd |-> NullCD]
\* the descriptor file holds the complete serialisation of cd
File(cd) == [state |-> "ok", cd |-> cd]

\* cdv2.RepositoryContext of an OCI registry
RepoCtx(type, url) == [type |-> type, baseURL |-> url]

\* the archives the first invocation may find
InitialDisks ==
    { Descriptor("comp", "v1", << RepoCtx("ociRegistry", "r1") >>, <<>>),
      Descriptor("comp", "v1", << RepoCtx("ociRegistry", "r1") >>,
                 << Res("a", "v1", "t1", "e1", None, "external", "acc1"),
                    Res("a", "v1", "t1", None, "l1", "external", "acc1"),
                    Res("b", "v1", "t1", None, None, "external", "acc1") >>) }

(* ------------------- component-spec library functions ------------------ *)
(* The functions of github.com/gardener/component-spec that Run calls, as   *)
(* far as Run depends on them.                                              *)

\* IdentityObjectMeta.GetIdentity: the name and the extraIdentity pairs.
\* Version and type are no part of it: a template with the name of an entry
\* and another version overwrites that entry (sources/add_test.go, "should
\* overwrite the version of a already existing source").
Identity(o) == << o.name, o.extraIdentity >>

\* ComponentDescriptor.GetResourceIndex: the index of the first resource with
\* the identity of res, 0 (-1 in the code) if there is none
GetResourceIndex(cd, res) ==
    IF \E i \in 1..Len(cd.resources) :
           Identity(cd.resources[i]) = Identity(res)
    THEN CHOOSE i \in 1..Len(cd.resources) :
           /\ Identity(cd.resources[i]) = Identity(res)
           /\ \A j \in 1..(i - 1) : Identity(cd.resources[j]) # Identity(res)
    ELSE 0

\* the field b of the second object overwrites a of the first if it is set
Overwrite(a, b) == IF b # None THEN b ELSE a

\* cdutils.MergeResources: the attributes defined in b overwrite those of a
MergeResources(a, b) ==
    Res(Overwrite(a.name, b.name), Overwrite(a.version, b.version),
        Overwrite(a.type, b.type),
        Overwrite(a.extraIdentity, b.extraIdentity),
        Overwrite(a.labels, b.labels), Overwrite(a.relation, b.relation),
        Overwrite(a.access, b.access))

\* cdvalidation.ValidateResource: the per-entry rules
ValidateResource(res) ==
    /\ res.name # None
    /\ res.version # None
    /\ res.type # None
    /\ res.relation \in {"local", "external"}
    /\ res.access # None

\* cdvalidation.Validate: the rules of the whole descriptor
Validate(cd) ==
    /\ cd.schemaVersion # None
    /\ cd.name # None
    /\ cd.version # None
    /\ cd.provider \in {"internal", "external"}
    /\ \A i \in 1..Len(cd.resources) : ValidateResource(cd.resources[i])
    /\ \A i, j \in 1..Len(cd.resources) :
           i # j => Identity(cd.resources[i]) # Identity(cd.resources[j])

\* ComponentDescriptor with its resources replaced
WithResources(cd, rs) == [cd EXCEPT !.resources = rs]

\* ctf.ComponentArchive.AddResource ("If the specified resource already
\* exists it will be overwritten"): sets the access of res to the stored
\* blob and puts res at the place of the resource with its identity, or at
\* the end if there is none
AddResource(cd, res, digest) ==
    LET id == GetResourceIndex(cd, res)
        stored == [res EXCEPT !.access = LocalFsBlob(digest)]
    IN  IF id = 0
        THEN WithResources(cd, Append(cd.resources, stored))
        ELSE WithResources(cd, [cd.resources EXCEPT ![id] = stored])

\* input.BlobInput.Read: the blob of the input, or an error
ReadInput(input) ==
    IF input = "file_ok"
    THEN [err |-> None, digest |-> "sha256:d1"]
    ELSE [err |-> "input", digest |-> None]

\* utils.AddRepositoryContext: appends the context unless it is there
AddRepositoryContext(ctxs, type, url) ==
    IF \E i \in 1..Len(ctxs) : ctxs[i] = RepoCtx(type, url)
    THEN ctxs
    ELSE Append(ctxs, RepoCtx(type, url))

(* ------------------------- resources/add.go ---------------------------- *)
\* the version of a local resource is left as the template has it
DefaultVersionLeft(cd, resource) == resource

\* generateResourcesFromReader, lines 223-226: a local resource without
\* version gets the version of the component descriptor
DefaultVersion(cd, resource) ==
    IF resource.relation = "local" /\ resource.version = None
    THEN [resource EXCEPT !.version = cd.version]
    ELSE resource

\* generateResourcesFromReader, lines 228-230: input and access are both set
InputAndAccess(resource) == resource.input # None /\ resource.access # None

\* result of a decoding: an error and the ordinal of the document that
\* caused it, or the resources
Decoded(e, at, rs) == [err |-> e, at |-> at, resources |-> rs]

RECURSIVE DecodeLoop(_, _, _)
\* a document that fails ends the loop as the end of the reader does: the
\* templates before it are returned without error
DecodeLoopEndsAtFailure(cd, docs, acc) ==
    IF docs = <<>> \/ Head(docs).malformed
    THEN Decoded(None, 0, acc)
    ELSE LET resource == DefaultVersion(cd, Head(docs))
         IN  IF InputAndAccess(resource)
             THEN Decoded(None, 0, acc)
             ELSE DecodeLoop(cd, Tail(docs), Append(acc, resource))

\* the loop of generateResourcesFromReader over the documents left
DecodeLoop(cd, docs, acc) ==
    IF docs = <<>>
    THEN Decoded(None, 0, acc)
    ELSE IF Head(docs).malformed
         THEN Decoded("decode", Len(acc) + 1, <<>>)
         ELSE LET resource == DefaultVersion(cd, Head(docs))
              IN  IF InputAndAccess(resource)
                  THEN Decoded("conflict", Len(acc) + 1, <<>>)
                  ELSE DecodeLoop(cd, Tail(docs), Append(acc, resource))

generateResourcesFromReader(cd, docs) == DecodeLoop(cd, docs, <<>>)

\* the documents of stdin come before those of the template file
generateResourcesStdinFirst(cd, path, file, in) ==
    LET fromFile == IF path # "nopath"
                    THEN generateResourcesFromReader(cd, file)
                    ELSE Decoded(None, 0, <<>>)
        fromStdin == generateResourcesFromReader(cd, in)
    IN  IF path = "unreadable" THEN Decoded("open", 0, <<>>)
        ELSE IF fromFile.err # None THEN fromFile
        ELSE IF Len(in) = 0 THEN fromFile
        ELSE IF fromStdin.err # None
             THEN Decoded(fromStdin.err, Len(fromFile.resources) + fromStdin.at,
                          <<>>)
             ELSE Decoded(None, 0, fromStdin.resources \o fromFile.resources)

\* Options.generateResources: the documents of the template file, then the
\* documents of stdin if stdin is a named pipe or not empty (a named pipe
\* without documents adds nothing, as a stdin that is not read)
generateResources(cd, path, file, in) ==
    LET fromFile == IF path # "nopath"
                    THEN generateResourcesFromReader(cd, file)
                    ELSE Decoded(None, 0, <<>>)
        fromStdin == generateResourcesFromReader(cd, in)
    IN  IF path = "unreadable" THEN Decoded("open", 0, <<>>)
        ELSE IF fromFile.err # None THEN fromFile
        ELSE IF Len(in) = 0 THEN fromFile
        ELSE IF fromStdin.err # None
             THEN Decoded(fromStdin.err, Len(fromFile.resources) + fromStdin.at,
                          <<>>)
             ELSE Decoded(None, 0, fromFile.resources \o fromStdin.resources)

\* result of the merge of one template: an error or the descriptor
Merged(e, cd) == [err |-> e, cd |-> cd]

\* the template is appended whether its identity is there or not
MergeAccessAppend(cd, res) ==
    IF ~ValidateResource(res)
    THEN Merged("invalid", cd)
    ELSE Merged(None, WithResources(cd, Append(cd.resources, res)))

\* the merged resource is validated but not stored (line 141 missing)
MergeAccessNotStored(cd, res) ==
    LET id == GetResourceIndex(cd, res)
    IN  IF id # 0
        THEN IF ~ValidateResource(MergeResources(cd.resources[id], res))
             THEN Merged("invalid", cd)
             ELSE Merged(None, cd)
        ELSE IF ~ValidateResource(res)
             THEN Merged("invalid", cd)
             ELSE Merged(None, WithResources(cd, Append(cd.resources, res)))

\* the resource is looked up by name, version, type and extraIdentity
MergeAccessByVersion(cd, res) ==
    LET same(i) == /\ Identity(cd.resources[i]) = Identity(res)
                   /\ cd.resources[i].version = res.version
                   /\ cd.resources[i].type = res.type
        found == \E i \in 1..Len(cd.resources) : same(i)
        id == CHOOSE i \in 1..Len(cd.resources) : same(i)
    IN  IF found
        THEN IF ~ValidateResource(MergeResources(cd.resources[id], res))
             THEN Merged("invalid", cd)
             ELSE Merged(None,
                         WithResources(cd, [cd.resources EXCEPT ![id] =
                             MergeResources(cd.resources[id], res)]))
        ELSE IF ~ValidateResource(res)
             THEN Merged("invalid", cd)
             ELSE Merged(None, WithResources(cd, Append(cd.resources, res)))

\* Options.Run, lines 135-147: a template with access is merged into the
\* resource of its identity, or appended if there is none
MergeAccess(cd, res) ==
    LET id == GetResourceIndex(cd, res)
        mergedRes == MergeResources(cd.resources[id], res)
    IN  IF id # 0
        THEN IF ~ValidateResource(mergedRes)
             THEN Merged("invalid", cd)
             ELSE Merged(None,
                         WithResources(cd, [cd.resources EXCEPT
                                                ![id] = mergedRes]))
        ELSE IF ~ValidateResource(res)
             THEN Merged("invalid", cd)
             ELSE Merged(None, WithResources(cd, Append(cd.resources, res)))

\* the blob resource is appended whether its identity is there or not
addInputBlobAppends(cd, resource) ==
    LET blob == ReadInput(resource.input)
        stored == [ResourceOf(resource) EXCEPT
                       !.access = LocalFsBlob(blob.digest)]
    IN  IF blob.err # None
        THEN Merged(blob.err, cd)
        ELSE Merged(None, WithResources(cd, Append(cd.resources, stored)))

\* Options.addInputBlob: reads the input and adds it as blob resource
addInputBlob(cd, resource) ==
    LET blob == ReadInput(resource.input)
    IN  IF blob.err # None
        THEN Merged(blob.err, cd)
        ELSE Merged(None, AddResource(cd, ResourceOf(resource), blob.digest))

\* Options.Run, lines 129-148: the merge of one template
MergeTemplate(cd, resource) ==
    IF resource.input # None
    THEN addInputBlob(cd, resource)
    ELSE MergeAccess(cd, ResourceOf(resource))

\* the descriptor is written before it is validated
AfterStageWriteFirst(stage) ==
    CASE stage = "merge" -> "write"
      [] stage = "write" -> "validate"
      [] stage = "validate" -> "next"

\* the descriptor is not written per template
AfterStageNoWrite(stage) ==
    CASE stage = "merge" -> "validate"
      [] stage = "validate" -> "next"
      [] stage = "write" -> "next"

\* Options.Run, lines 128-162: the order of the steps on one template;
\* "next" is the next iteration of the loop
AfterStage(stage) ==
    CASE stage = "merge" -> "validate"
      [] stage = "validate" -> "write"
      [] stage = "write" -> "next"

\* the descriptor is written without validation
ValidateArchiveSkipped(cd) == TRUE

\* Options.Run, lines 150-152: the descriptor passes before it is written
ValidateArchive(cd) == Validate(cd)

\* vfs.WriteFile on the descriptor file (add.go line 158, init.go line 106):
\* the file is opened with truncation and then written; a failure leaves the
\* old file (not opened) or a truncated one
WriteOutcomes == {"ok", "unopened", "torn"}

WriteFile(old, cd, outcome) ==
    CASE outcome = "ok" -> File(cd)
      [] outcome = "unopened" -> old
      [] outcome = "torn" -> Torn

(* ------------------------------ init.go -------------------------------- *)
RECURSIVE AddContexts(_, _)
\* InitOptions.Run, lines 87-89: one context per registry url
AddContexts(ctxs, urls) ==
    IF urls = <<>>
    THEN ctxs
    ELSE AddContexts(AddRepositoryContext(ctxs, "ociRegistry", Head(urls)),
                     Tail(urls))

\* the descriptor gets no repository context (lines 87-89 missing)
InitDescriptorWithoutContexts(opts) ==
    Descriptor(opts.name, opts.version, <<>>, <<>>)

\* InitOptions.Run, lines 77-94: the descriptor init builds
InitDescriptor(opts) ==
    Descriptor(opts.name, opts.version, AddContexts(<<>>, opts.urls), <<>>)

\* the InitOptions init is run with
InitOptionsSet ==
    [name : {None, "comp"}, version : {"v1", "v2"},
     urls : { << "r1" >>, << "r2", "r1" >>, << "r1", "r1" >> }]

\* InitOptions of an invocation that is no init
NoInitOpts == [name |-> None, version |-> None, urls |-> <<>>]

VARIABLES
    pathKind,     \* what o.ComponentArchivePath is: "absent", "dir", "file"
    disk,         \* content of the descriptor file: NoFile, Torn, File(cd)
    blobs,        \* digests stored in the blobs directory of the archive
    cmd,          \* command of the running invocation: "none", "add", "init"
    pc,           \* position of the invocation
    err,          \* error the invocation returned, None if none
    resourcePath, \* o.ResourceObjectPath, one of PathKinds
    fileDocs,     \* documents resourceObjectReader has not read yet
    stdin,        \* documents os.Stdin has not read yet
    stream,       \* history: the documents of the file, then those of stdin
    initOpts,     \* InitOptions of an init invocation
    archive,      \* archive.ComponentDescriptor resp. cd of init, in memory
    resources,    \* the decoded templates (resources of Run)
    idx,          \* index of the template the loop of Run is at
    runs,         \* invocations so far
    disk0,        \* history: descriptor file when the invocation started
    diskDoc,      \* history: descriptor file when the current template started
    committed,    \* history: templates written by this invocation
    validated,    \* history: the descriptor the last Validate call accepted
    once          \* history: templates and result of the first add, see Once

vars ==
    << pathKind, disk, blobs, cmd, pc, err, resourcePath, fileDocs, stdin,
       stream, initOpts,
       archive, resources, idx, runs, disk0, diskDoc, committed, validated,
       once >>

\* nothing is remembered of a first add
NoOnce == [valid |-> FALSE, again |-> FALSE, stream |-> <<>>, disk |-> NoFile]

\* what is remembered of the first add that returned without error: its
\* templates (stream), the descriptor file it left (disk), and whether the
\* running invocation is given the same templates again (again)
Once(s, d, a) == [valid |-> TRUE, again |-> a, stream |-> s, disk |-> d]

(* ------------------------------- inputs -------------------------------- *)
\* the streams of k documents
Streams(k) == [1..k -> Templates]

(* ---------------------------- initial state ---------------------------- *)
Init ==
    /\ \/ pathKind = "absent" /\ disk = NoFile
       \/ pathKind = "file" /\ disk = NoFile
       \/ pathKind = "dir" /\ disk = NoFile
       \/ pathKind = "dir" /\ disk \in { File(cd) : cd \in InitialDisks }
    /\ blobs = {}
    /\ cmd = "none"
    /\ pc = "idle"
    /\ err = None
    /\ resourcePath = "nopath"
    /\ fileDocs = <<>>
    /\ stdin = <<>>
    /\ stream = <<>>
    /\ initOpts = NoInitOpts
    /\ archive = NullCD
    /\ resources = <<>>
    /\ idx = 0
    /\ runs = 0
    /\ disk0 = disk
    /\ diskDoc = disk
    /\ committed = 0
    /\ validated = NullCD
    /\ once = NoOnce

\* the invocation returns the error e
Fail(e) == pc' = "failed" /\ err' = e

\* the invocation goes on at what follows the stage it is at
Continue(stage) ==
    LET next == AfterStage(stage)
    IN  IF next # "next"
        THEN /\ pc' = next
             /\ UNCHANGED << idx, diskDoc >>
        ELSE IF idx < Len(resources)
             THEN /\ pc' = "merge"
                  /\ idx' = idx + 1
                  /\ diskDoc' = disk'
             ELSE /\ pc' = "done"
                  /\ UNCHANGED << idx, diskDoc >>

(* --------------------------- resources add ----------------------------- *)
\* Options.Run, lines 116-121: a new invocation of add loads the archive
AddBuild ==
    /\ pc = "idle"
    /\ runs < MaxRuns
    /\ runs' = runs + 1
    /\ cmd' = "add"
    /\ IF pathKind = "dir" /\ disk.state = "ok"
       THEN /\ \E k \in 0..MaxDocs : \E j \in 0..(MaxDocs - k) :
                 /\ fileDocs' \in Streams(k)
                 /\ stdin' \in Streams(j)
                 /\ resourcePath' \in
                       IF k = 0 THEN PathKinds ELSE {"file"}
            /\ archive' = disk.cd
            /\ pc' = "generate"
            /\ err' = None
       ELSE /\ resourcePath' = "nopath"
            /\ fileDocs' = <<>>
            /\ stdin' = <<>>
            /\ archive' = NullCD
            /\ Fail("build")
    /\ stream' = fileDocs' \o stdin'
    /\ disk0' = disk
    /\ diskDoc' = disk
    /\ UNCHANGED << pathKind, disk, blobs, initOpts, resources, idx,
                    committed, validated, once >>

\* Options.Run, lines 123-126: all templates are decoded; both readers are
\* read to their end or to the document that fails
AddGenerate ==
    /\ pc = "generate"
    /\ LET g == generateResources(archive, resourcePath, fileDocs, stdin)
       IN  IF g.err # None
           THEN /\ Fail(g.err)
                /\ idx' = g.at
                /\ UNCHANGED resources
           ELSE /\ resources' = g.resources
                /\ err' = None
                /\ IF g.resources = <<>>
                   THEN pc' = "done" /\ idx' = 0
                   ELSE pc' = "merge" /\ idx' = 1
    /\ fileDocs' = <<>>
    /\ stdin' = <<>>
    /\ UNCHANGED << pathKind, disk, blobs, cmd, resourcePath, stream,
                    initOpts, archive, runs, disk0, diskDoc, committed,
                    validated, once >>

\* Options.Run, lines 129-148: the template is merged into the descriptor in
\* memory; the blob of an input is stored in the archive
AddMerge ==
    /\ pc = "merge"
    /\ UNCHANGED disk
    /\ LET resource == resources[idx]
           m == MergeTemplate(archive, resource)
       IN  /\ archive' = m.cd
           /\ blobs' = IF resource.input # None /\ m.err = None
                       THEN blobs \cup {ReadInput(resource.input).digest}
                       ELSE blobs
           /\ IF m.err # None
              THEN Fail(m.err) /\ UNCHANGED << idx, diskDoc >>
              ELSE err' = None /\ Continue("merge")
    /\ UNCHANGED << pathKind, cmd, resourcePath, fileDocs, stdin, stream,
                    initOpts, resources, runs, disk0, committed, validated,
                    once >>

\* Options.Run, lines 150-152: the whole descriptor is validated
AddValidate ==
    /\ pc = "validate"
    /\ UNCHANGED disk
    /\ IF ValidateArchive(archive)
       THEN /\ validated' = archive
            /\ err' = None
            /\ Continue("validate")
       ELSE /\ Fail("invalid")
            /\ UNCHANGED << validated, idx, diskDoc >>
    /\ UNCHANGED << pathKind, blobs, cmd, resourcePath, fileDocs, stdin,
                    stream, initOpts, archive, resources, runs, disk0,
                    committed, once >>

\* Options.Run, lines 154-161: the descriptor is written to its file
AddWrite ==
    /\ pc = "write"
    /\ \E outcome \in WriteOutcomes :
          /\ disk' = WriteFile(disk, archive, outcome)
          /\ IF outcome = "ok"
             THEN /\ committed' = committed + 1
                  /\ err' = None
                  /\ Continue("write")
             ELSE /\ Fail("write")
                  /\ UNCHANGED << committed, idx, diskDoc >>
    /\ UNCHANGED << pathKind, blobs, cmd, resourcePath, fileDocs, stdin,
                    stream, initOpts, archive, resources, runs, disk0,
                    validated, once >>

(* -------------------------------- init --------------------------------- *)
\* init stats the descriptor file (the TODO of line 75) and returns an error
\* if there is one
InitPrepareStatsDescriptor ==
    /\ pc = "idle"
    /\ runs < MaxRuns
    /\ runs' = runs + 1
    /\ cmd' = "init"
    /\ disk0' = disk
    /\ diskDoc' = disk
    /\ \E opts \in InitOptionsSet :
          /\ initOpts' = opts
          /\ IF pathKind = "file"
             THEN /\ Fail("notdir")
                  /\ UNCHANGED << pathKind, archive, validated >>
             ELSE /\ pathKind' = "dir"
                  /\ IF disk.state # "nofile"
                     THEN Fail("exists") /\ UNCHANGED << archive, validated >>
                     ELSE /\ archive' = InitDescriptor(opts)
                          /\ IF Validate(archive')
                             THEN pc' = "initwrite" /\ err' = None
                                                    /\ validated' = archive'
                             ELSE Fail("invalid") /\ UNCHANGED validated
    /\ UNCHANGED << disk, blobs, resourcePath, fileDocs, stdin, stream,
                    resources, idx, committed, once >>

\* InitOptions.Run, lines 63-98: the directory is made if it is absent, the
\* descriptor is built and validated
InitPrepare ==
    /\ pc = "idle"
    /\ runs < MaxRuns
    /\ runs' = runs + 1
    /\ cmd' = "init"
    /\ disk0' = disk
    /\ diskDoc' = disk
    /\ \E opts \in InitOptionsSet :
          /\ initOpts' = opts
          /\ IF pathKind = "file"
             THEN /\ Fail("notdir")
                  /\ UNCHANGED << pathKind, archive, validated >>
             ELSE /\ pathKind' = "dir"
                  /\ archive' = InitDescriptor(opts)
                  /\ IF Validate(archive')
                     THEN pc' = "initwrite" /\ err' = None
                                            /\ validated' = archive'
                     ELSE Fail("invalid") /\ UNCHANGED validated
    /\ UNCHANGED << disk, blobs, resourcePath, fileDocs, stdin, stream,
                    resources, idx, committed, once >>

\* InitOptions.Run, lines 100-111: the descriptor is written to its file
InitWrite ==
    /\ pc = "initwrite"
    /\ \E outcome \in WriteOutcomes :
          /\ disk' = WriteFile(disk, archive, outcome)
          /\ IF outcome = "ok"
             THEN pc' = "done" /\ err' = None
             ELSE Fail("write")
    /\ UNCHANGED << pathKind, blobs, cmd, resourcePath, fileDocs, stdin,
                    stream, initOpts, archive, resources, idx, runs, disk0,
                    diskDoc, committed, validated, once >>

\* the process of the invocation ends: its memory is gone, the archive
\* directory stays (NewAddCommand, add.go lines 97-107; NewInitCommand,
\* init.go lines 47-56)
Leave ==
    /\ pc \in {"done", "failed"}
    /\ pc' = "idle"
    /\ cmd' = "none"
    /\ err' = None
    /\ resourcePath' = "nopath"
    /\ fileDocs' = <<>>
    /\ stdin' = <<>>
    /\ stream' = <<>>
    /\ initOpts' = NoInitOpts
    /\ archive' = NullCD
    /\ resources' = <<>>
    /\ idx' = 0
    /\ disk0' = disk
    /\ diskDoc' = disk
    /\ committed' = 0
    /\ validated' = NullCD
    /\ UNCHANGED << pathKind, disk, blobs, runs >>

\* an invocation ends
Exit == Leave /\ UNCHANGED once

Next ==
    \/ AddBuild
    \/ AddGenerate
    \/ AddMerge
    \/ AddValidate
    \/ AddWrite
    \/ InitPrepare
    \/ InitWrite
    \/ Exit

Spec == Init /\ [][Next]_vars

(* ----------------- the same templates given to add again --------------- *)
\* the first invocation: add with any templates (NewAddCommand, add.go
\* lines 97-107)
AddFirst == runs = 0 /\ AddBuild

\* Options.Run, lines 116-121: a later invocation of add on the archive the
\* first one left, with the templates of the first one, split between the
\* file and stdin in any way
AddAgain ==
    /\ pc = "idle"
    /\ once.valid
    /\ runs < MaxRuns
    /\ runs' = runs + 1
    /\ cmd' = "add"
    /\ IF pathKind = "dir" /\ disk.state = "ok"
       THEN /\ \E k \in 0..Len(once.stream) :
                 /\ fileDocs' = SubSeq(once.stream, 1, k)
                 /\ stdin' = SubSeq(once.stream, k + 1, Len(once.stream))
                 /\ resourcePath' \in
                       IF k = 0 THEN {"nopath", "file"} ELSE {"file"}
            /\ archive' = disk.cd
            /\ pc' = "generate"
            /\ err' = None
       ELSE /\ resourcePath' = "nopath"
            /\ fileDocs' = <<>>
            /\ stdin' = <<>>
            /\ archive' = NullCD
            /\ Fail("build")
    /\ stream' = once.stream
    /\ disk0' = disk
    /\ diskDoc' = disk
    /\ once' = Once(once.stream, once.disk, TRUE)
    /\ UNCHANGED << pathKind, disk, blobs, initOpts, resources, idx,
                    committed, validated >>

\* an invocation ends; the first add that returned without error is
\* remembered with the descriptor file it left
ExitOnce ==
    /\ Leave
    /\ once' = IF ~once.valid /\ cmd = "add" /\ pc = "done"
               THEN Once(stream, disk, FALSE)
               ELSE once

NextTwice ==
    \/ AddFirst
    \/ AddGenerate
    \/ AddMerge
    \/ AddValidate
    \/ AddWrite
    \/ ExitOnce
    \/ AddAgain

SpecTwice == Init /\ [][NextTwice]_vars

(* ------------------------------ properties ----------------------------- *)
\* the resources rs hold an entry with the identity of o
IdentityIn(rs, o) == \E i \in 1..Len(rs) : Identity(rs[i]) = Identity(o)

\* an invocation of add has returned an error
AddFailed == cmd = "add" /\ pc = "failed"

\* the errors of the decoding of the templates
DecodeErrors == {"decode", "conflict"}

\* the errors of the merge of one template
MergeErrors == {"input", "invalid"}

RECURSIVE AllCommit(_, _)
\* every document of docs decodes, merges and validates, one after the other,
\* on the descriptor cd
AllCommit(cd, docs) ==
    IF docs = <<>>
    THEN TRUE
    ELSE /\ ~Head(docs).malformed
         /\ ~InputAndAccess(Head(docs))
         /\ LET m == MergeTemplate(cd, DefaultVersion(cd, Head(docs)))
            IN  /\ m.err = None
                /\ Validate(m.cd)
                /\ AllCommit(m.cd, Tail(docs))

\* the descriptor file holds an entry for each of the first n documents
HoldsDocs(n) ==
    /\ disk.state = "ok"
    /\ \A j \in 1..n : IdentityIn(disk.cd.resources, stream[j])

\* C1 as stated: whenever documents 1..k-1 of the stream are valid and
\* document k fails (malformed, access and input, validation, unreadable
\* input), add returns an error and the descriptor file holds the entries of
\* documents 1..k-1, which were written one by one.
C1_IsolationOfEveryFailure ==
    (/\ AddFailed
     /\ err \in DecodeErrors \cup MergeErrors
     /\ AllCommit(disk0.cd, SubSeq(stream, 1, idx - 1)))
        => /\ committed = idx - 1
           /\ HoldsDocs(idx - 1)

\* C1 amended: if every document decodes and document k is the first to fail
\* at its merge (unreadable input, per-entry or whole-descriptor validation),
\* add returns an error and the descriptor file holds the entries of
\* documents 1..k-1; if a document fails at decoding (malformed, access and
\* input), add returns an error and the descriptor file is as it was before
\* the invocation, whatever the documents before it.
C1_IsolationAfterDecoding ==
    /\ (AddFailed /\ err \in MergeErrors)
          => /\ committed = idx - 1
             /\ HoldsDocs(idx - 1)
             /\ AllCommit(disk0.cd, SubSeq(stream, 1, idx - 1))
    /\ (AddFailed /\ err \in DecodeErrors)
          => /\ committed = 0
             /\ disk = disk0

\* the second document fails at its merge after the first was written
C1_Witness ==
    /\ AddFailed
    /\ err \in MergeErrors
    /\ idx = 2
    /\ committed = 1
    /\ disk # disk0

\* C2 as stated: a descriptor write leaves the descriptor file with the
\* complete previous descriptor or the complete new one, also when it fails.
C2_AllOrNothing ==
    [][(pc \in {"write", "initwrite"}) =>
           (disk' = disk \/ disk' = File(archive))]_vars

\* name, version, type and extraIdentity of an entry
FullIdentity(o) == << o.name, o.version, o.type, o.extraIdentity >>

\* no two entries of rs share name and extraIdentity, nor therefore name,
\* version, type and extraIdentity
Distinct(rs) ==
    \A i, j \in 1..Len(rs) :
        i # j => /\ Identity(rs[i]) # Identity(rs[j])
                 /\ FullIdentity(rs[i]) # FullIdentity(rs[j])

\* C3: no two resources share an identity, in the descriptor in memory and
\* in the descriptor file, whatever add operations ran.
C3_DistinctIdentities ==
    /\ Distinct(archive.resources)
    /\ disk.state = "ok" => Distinct(disk.cd.resources)

\* two templates were written, one of them onto an entry of its identity
C3_Witness ==
    /\ cmd = "add"
    /\ pc = "done"
    /\ committed = 2
    /\ Len(disk.cd.resources) = Len(disk0.cd.resources) + 1
    /\ Len(disk.cd.resources) > 1
\* the template the loop of Run is at
Current == resources[idx]

\* the merge of the current template into the descriptor in memory succeeds
MergeDone == pc = "merge" /\ pc' # "failed"

\* the write of the descriptor with the current template succeeds
WriteDone == cmd = "add" /\ pc = "write" /\ committed' = committed + 1

\* the entry i of rs has the name and the extraIdentity of o
SameNameAndExtra(rs, i, o) ==
    rs[i].name = o.name /\ rs[i].extraIdentity = o.extraIdentity

\* old becomes new by a template t that overwrites the entry defined for it
Overwritten(old, new, t) ==
    (\E i \in 1..Len(old) : SameNameAndExtra(old, i, t))
        => /\ Len(new) = Len(old)
           /\ \A i \in 1..Len(old) :
                 SameNameAndExtra(old, i, t)
                    => /\ SameNameAndExtra(new, i, t)
                       /\ t.version # None => new[i].version = t.version

\* C4: a template whose entry is already defined overwrites that entry and
\* adds no second one; a template with the name of an entry and another
\* version leaves the number of entries as it is and gives the entry the
\* version of the template.  In memory at the merge, and in the file at the
\* write.
C4_OverwritesDefinedEntry ==
    [][/\ MergeDone =>
             Overwritten(archive.resources, archive'.resources, Current)
       /\ WriteDone =>
             Overwritten(disk.cd.resources, disk'.cd.resources, Current)]_vars

\* the last template was written onto an entry of its name with version v1,
\* which has version v2 now
C4_Witness ==
    /\ cmd = "add"
    /\ pc = "done"
    /\ committed >= 1
    /\ Len(disk.cd.resources) = Len(diskDoc.cd.resources)
    /\ \E i \in 1..Len(diskDoc.cd.resources) :
          /\ SameNameAndExtra(diskDoc.cd.resources, i, Current)
          /\ diskDoc.cd.resources[i].version = "v1"
          /\ Current.version = "v2"
          /\ disk.cd.resources[i].version = "v2"

\* C5 as stated: a template is merged into an existing entry exactly when
\* name, version, type and extraIdentity are equal; a template that differs
\* from every entry in one of them, be it the version alone, is appended.
C5_SameByNameVersionType ==
    [][MergeDone =>
          IF \E i \in 1..Len(archive.resources) :
                 FullIdentity(archive.resources[i]) = FullIdentity(Current)
          THEN Len(archive'.resources) = Len(archive.resources)
          ELSE Len(archive'.resources) = Len(archive.resources) + 1]_vars

\* C5 amended: a template is stored at the place of an existing entry exactly
\* when name and extraIdentity are equal, whatever version and type are; a
\* template that differs from every entry in name or extraIdentity is
\* appended.
C5_SameByNameAndExtraIdentity ==
    [][MergeDone =>
          LET old == archive.resources
              new == archive'.resources
          IN  IF \E i \in 1..Len(old) : SameNameAndExtra(old, i, Current)
              THEN /\ Len(new) = Len(old)
                   /\ \A i \in 1..Len(old) :
                         ~SameNameAndExtra(old, i, Current)
                             => new[i] = old[i]
              ELSE /\ Len(new) = Len(old) + 1
                   /\ SubSeq(new, 1, Len(old)) = old
                   /\ SameNameAndExtra(new, Len(new), Current)
                   /\ new[Len(new)].version = Current.version]_vars

\* a template was merged into the entry of its name, whose version differs
\* from the version of the template
C5_Witness ==
    /\ cmd = "add"
    /\ pc = "validate"
    /\ Len(archive.resources) = Len(disk.cd.resources)
    /\ \E i \in 1..Len(disk.cd.resources) :
          /\ SameNameAndExtra(disk.cd.resources, i, Current)
          /\ Current.version # None
          /\ disk.cd.resources[i].version # Current.version
          /\ archive.resources[i].version = Current.version

\* the errors add returns for a document or a stream of documents
DocumentErrors == {"open"} \cup DecodeErrors \cup MergeErrors

\* C6: when add returns an error for a document, the descriptor file is as
\* it was before that document, so the entry of the document is not in it;
\* when no document was written before, the file keeps the entries it had
\* before the invocation.
C6_FailedDocumentNotWritten ==
    (AddFailed /\ err \in DocumentErrors)
        => /\ disk = diskDoc
           /\ committed = 0 => disk = disk0

\* the only document of the stream was merged in memory and failed the
\* validation; the file is as before
C6_Witness ==
    /\ AddFailed
    /\ err = "invalid"
    /\ Len(stream) = 1
    /\ archive # disk0.cd
    /\ disk = disk0

\* a step of add or init writes the descriptor file completely
Writes == pc \in {"write", "initwrite"} /\ pc' # "failed"

\* C7: the descriptor that add or init writes is the descriptor that passed
\* Validate last, unchanged since; so a descriptor file that was written
\* completely holds a valid descriptor.
C7_WrittenIsValidated ==
    /\ [][Writes => /\ disk' = File(archive)
                    /\ archive = validated
                    /\ Validate(archive)]_vars
    /\ [](disk.state = "ok" => Validate(disk.cd))

\* add wrote a descriptor with a resource it got from a template
C7_Witness ==
    /\ cmd = "add"
    /\ pc = "done"
    /\ committed >= 1
    /\ disk = File(validated)
    /\ disk # disk0
\* the decoding of the templates succeeds
GenerateDone == pc = "generate" /\ pc' # "failed"

\* the template r is the document d, but for its version
DecodedFrom(r, d) == [r EXCEPT !.version = None] = [d EXCEPT !.version = None]

\* the index of the first template with the identity of o
FirstTemplate(o) ==
    CHOOSE i \in 1..Len(resources) :
        /\ Identity(resources[i]) = Identity(o)
        /\ \A j \in 1..(i - 1) : Identity(resources[j]) # Identity(o)

\* C8: the templates are the documents of the file in file order, then the
\* documents of stdin in stream order; when add has written them all, the
\* entries the archive had are at their places and the entries that are new
\* follow them in the order of the templates.
C8_FileThenStdinOrder ==
    /\ [][GenerateDone =>
             /\ Len(resources') = Len(fileDocs) + Len(stdin)
             /\ \A i \in 1..Len(fileDocs) :
                   DecodedFrom(resources'[i], fileDocs[i])
             /\ \A i \in 1..Len(stdin) :
                   DecodedFrom(resources'[Len(fileDocs) + i], stdin[i])]_vars
    /\ []((cmd = "add" /\ pc = "done") =>
             LET old == disk0.cd.resources
                 new == disk.cd.resources
             IN  /\ Len(new) >= Len(old)
                 /\ \A i \in 1..Len(old) : Identity(new[i]) = Identity(old[i])
                 /\ \A i \in (Len(old) + 1)..Len(new) :
                       /\ ~IdentityIn(old, new[i])
                       /\ IdentityIn(resources, new[i])
                 /\ \A i, j \in (Len(old) + 1)..Len(new) :
                       i < j => FirstTemplate(new[i]) < FirstTemplate(new[j]))

\* two templates were written that are both new to the archive
C8_Witness ==
    /\ cmd = "add"
    /\ pc = "done"
    /\ committed = 2
    /\ Len(disk.cd.resources) = Len(disk0.cd.resources) + 2
    /\ Identity(disk.cd.resources[Len(disk.cd.resources)])
          = Identity(resources[2])

\* the document d is local and has no version
LocalWithoutVersion(d) == d.relation = "local" /\ d.version = None

\* C9: a template that is local and has no version gets the version of the
\* descriptor, and so has its entry in the descriptor file once it is
\* written; any other template keeps the version it carries.
C9_LocalVersionDefault ==
    [][/\ GenerateDone =>
             \A i \in 1..Len(stream) :
                 resources'[i].version =
                     IF LocalWithoutVersion(stream[i])
                     THEN archive.version
                     ELSE stream[i].version
       /\ (WriteDone /\ LocalWithoutVersion(stream[idx])) =>
             \E i \in 1..Len(disk'.cd.resources) :
                 /\ SameNameAndExtra(disk'.cd.resources, i, stream[idx])
                 /\ disk'.cd.resources[i].version = disk'.cd.version]_vars

\* a local template without version was written; its entry has the version
\* of the descriptor
C9_Witness ==
    /\ cmd = "add"
    /\ pc = "done"
    /\ idx >= 1
    /\ committed = idx
    /\ LocalWithoutVersion(stream[idx])
    /\ \E i \in 1..Len(disk.cd.resources) :
          /\ SameNameAndExtra(disk.cd.resources, i, stream[idx])
          /\ disk.cd.resources[i].version = disk.cd.version
          /\ disk.cd.version # None

\* the entry new is the field-level merge of the template t into old
FieldMerge(old, new, t) ==
    /\ new.name = old.name
    /\ new.extraIdentity = old.extraIdentity
    /\ new.version = Overwrite(old.version, t.version)
    /\ new.type = Overwrite(old.type, t.type)
    /\ new.labels = Overwrite(old.labels, t.labels)
    /\ new.relation = Overwrite(old.relation, t.relation)
    /\ new.access = IF t.input # None
                    THEN LocalFsBlob(ReadInput(t.input).digest)
                    ELSE Overwrite(old.access, t.access)

\* the written descriptor has the current template merged field by field
\* into the entry of its identity, the other entries as they were
MergedInPlace ==
    LET old == disk.cd.resources
        new == disk'.cd.resources
    IN  \A i \in 1..Len(old) :
            SameNameAndExtra(old, i, Current)
                => /\ Len(new) = Len(old)
                   /\ FieldMerge(old[i], new[i], Current)
                   /\ \A j \in 1..Len(old) : j # i => new[j] = old[j]

\* C10 as stated: a template that matches an entry by identity is stored as
\* the field-level merge at the place of that entry (a field of the template
\* if it is set there, of the entry otherwise), all other entries unchanged,
\* for templates with access and for templates with input.
C10_FieldLevelMerge == [][WriteDone => MergedInPlace]_vars

\* the running add is given the templates of the first add again
GivenAgain == cmd = "add" /\ once.again

\* the resources of the descriptor file, in their order
Collection(d) == d.cd.resources

\* the errors of the file system: the descriptor file is not written, or a
\* failed write has left a descriptor file that is not readable
FileErrors == {"write", "build"}

\* C11: add is idempotent: an add that is given again the templates of an add
\* that returned without error fails on an error of the file system only,
\* and when it returns without error the resources of the descriptor file
\* are those the first add left, in content and order; and within one
\* invocation, writing a template that equals the template before it leaves
\* the resources of the descriptor file as they were.
C11_AddIsIdempotent ==
    /\ [](GivenAgain =>
             /\ pc = "failed" => err \in FileErrors
             /\ pc = "done" => /\ disk.state = "ok"
                               /\ Collection(disk) = Collection(once.disk))
    /\ [][WriteDone /\ idx >= 2 /\ stream[idx] = stream[idx - 1] =>
             Collection(disk') = Collection(disk)]_vars

\* the templates of an add that changed an entry by an input and added or
\* changed another by an access were given again, and add returned
C11_Witness ==
    /\ GivenAgain
    /\ pc = "done"
    /\ committed = Len(stream)
    /\ \E i, j \in 1..Len(stream) :
          /\ stream[i].input # None
          /\ stream[j].input = None
    /\ Len(Collection(disk)) > 1

\* an invocation of init has returned without error
InitDone == cmd = "init" /\ pc = "done"

\* the place at which the url u is given first
FirstAt(urls, u) ==
    CHOOSE i \in 1..Len(urls) :
        urls[i] = u /\ \A j \in 1..(i - 1) : urls[j] # u

\* ctxs holds one OCI registry context per url of urls, in the order in
\* which the urls are given (a url that is given again counts once)
OnePerUrl(ctxs, urls) ==
    /\ \A i \in 1..Len(ctxs) : ctxs[i].type = "ociRegistry"
    /\ { ctxs[i].baseURL : i \in 1..Len(ctxs) } =
           { urls[i] : i \in 1..Len(urls) }
    /\ Len(ctxs) = Cardinality({ urls[i] : i \in 1..Len(urls) })
    /\ \A i, j \in 1..Len(ctxs) :
           i < j => FirstAt(urls, ctxs[i].baseURL)
                        < FirstAt(urls, ctxs[j].baseURL)

\* the descriptor init is to write for the options opts
FreshDescriptor(cd, opts) ==
    /\ cd.schemaVersion = "v2"
    /\ cd.name = opts.name
    /\ cd.version = opts.version
    /\ cd.provider = "internal"
    /\ cd.resources = <<>>
    /\ cd.sources = <<>>
    /\ cd.componentReferences = <<>>
    /\ OnePerUrl(cd.repositoryContexts, opts.urls)

\* an invocation of init starts
InitStarts == pc = "idle" /\ cmd' = "init"

\* C12: init on a path that is absent or a directory makes the path a
\* directory and, with options that pass the validation, goes on to write
\* the descriptor; when it returns without error the descriptor file holds
\* schema version v2, the given name and version, the internal provider, no
\* resources, sources and references, and one OCI registry context per
\* given url in the given order. init on a path that is a file returns an
\* error and leaves the path and the descriptor file as they were.
C12_InitWritesFreshDescriptor ==
    /\ [](InitDone => /\ pathKind = "dir"
                      /\ disk.state = "ok"
                      /\ FreshDescriptor(disk.cd, initOpts))
    /\ [](cmd = "init" /\ pathKind = "file" =>
             pc = "failed" /\ err = "notdir" /\ disk = disk0)
    /\ [][InitStarts =>
             IF pathKind = "file"
             THEN pc' = "failed" /\ UNCHANGED << pathKind, disk >>
             ELSE /\ pathKind' = "dir"
                  /\ initOpts'.name # None => pc' = "initwrite"]_vars
    /\ [][pc = "initwrite" /\ pc' = "done" => disk' = File(archive)]_vars

\* init with two registries has written the descriptor where no descriptor
\* file was
C12_Witness ==
    /\ InitDone
    /\ disk0 = NoFile
    /\ initOpts.urls = << "r2", "r1" >>
    /\ disk.cd.repositoryContexts =
           << RepoCtx("ociRegistry", "r2"), RepoCtx("ociRegistry", "r1") >>

\* the template r is the document d decoded: default version filled in for
\* a local resource, not both input and access
DecodedAs(r, d) ==
    /\ ~d.malformed
    /\ DecodedFrom(r, d)
    /\ r.version = IF d.relation = "local" /\ d.version = None
                   THEN archive.version
                   ELSE d.version
    /\ ~InputAndAccess(r)

\* every document of the file and of stdin is decoded
AllDecoded ==
    /\ Len(resources) = Len(stream)
    /\ \A i \in 1..Len(stream) : DecodedAs(resources[i], stream[i])

\* a step of add merges an entry, stores a blob or writes the descriptor file
Touches ==
    /\ cmd = "add"
    /\ cmd' = "add"
    /\ archive' # archive \/ blobs' # blobs \/ disk' # disk

\* up to the end of the decoding add leaves the descriptor file and the blobs
\* alone and has the descriptor in memory as it was loaded; the decoding
\* ends without error with every document decoded; entries are merged, blobs
\* stored and the descriptor file written with every document decoded
DecodingFirst ==
    /\ (pc \in {"idle", "generate"} /\ cmd' = "add") =>
           /\ UNCHANGED << disk, blobs >>
           /\ archive' = disk.cd \/ pc' = "failed"
    /\ GenerateDone => AllDecoded'
    /\ Touches => AllDecoded

\* C13: add decodes every document of the template file and of stdin, with
\* the default version and the check of input and access, before it merges
\* an entry, stores a blob or writes the descriptor file; so when a document
\* of either origin fails at the decoding, nothing was merged or written and
\* the descriptor file is as it was before the invocation.
C13_DecodedBeforeMerged ==
    /\ [][DecodingFirst]_vars
    /\ []((AddFailed /\ err \in DecodeErrors) =>
             /\ committed = 0
             /\ archive = disk0.cd
             /\ disk = disk0
             /\ \E i \in 1..Len(stream) :
                   stream[i].malformed \/ InputAndAccess(stream[i]))

\* the second document fails at the decoding; the first is a template whose
\* blob would have been stored and whose entry would have been written
C13_Witness ==
    /\ AddFailed
    /\ err \in DecodeErrors
    /\ idx = 2
    /\ stream[1].input = "file_ok"
    /\ AllCommit(disk0.cd, << stream[1] >>)
    /\ blobs = {}
    /\ disk = disk0

\* the three collections of the descriptor cd are empty
NoEntries(cd) ==
    /\ cd.resources = <<>>
    /\ cd.sources = <<>>
    /\ cd.componentReferences = <<>>

\* C14: init does not look at the descriptor file: whatever the file holds,
\* init fails only on a path that is a file, on options that do not pass the
\* validation or on a failed write, the descriptor it builds has no
\* resources, sources and references, and when it returns without error that
\* descriptor is the content of the descriptor file, so the entries the file
\* held are lost.
C14_InitIgnoresExistingDescriptor ==
    cmd = "init" =>
        /\ pc = "failed" =>
              /\ err \in {"notdir", "invalid", "write"}
              /\ err = "notdir" => pathKind = "file"
              /\ err = "invalid" => initOpts.name = None
        /\ pc \in {"initwrite", "done"} => NoEntries(archive)
        /\ pc = "done" => disk = File(archive) /\ NoEntries(disk.cd)

\* init has returned without error on a directory whose descriptor file held
\* three resources
C14_Witness ==
    /\ InitDone
    /\ disk0.state = "ok"
    /\ Len(disk0.cd.resources) = 3
    /\ disk.cd.resources = <<>>
    /\ disk.cd.name = initOpts.name

=============================================================================
